---- MODULE Spec2Model ----
\* State core of the area-learning session (area_learning_app.cc):
\*   - the pose callback thread, the event callback thread and the host
\*     (query/render) thread sharing pose_data_ and tango_event_data_ under
\*     pose_mutex_ and tango_event_mutex_;
\*   - the area-description operations (save, metadata get/set);
\*   - the catalog listing, the startup configuration and the life of the
\*     TangoConfig handles.
\* A thread's pc names the statement it executes next; "idle" is outside any
\* method of the class.
EXTENDS Integers, Sequences, FiniteSets, TLC

VARIABLES
    pose_mutex_,        \* holder of pose_mutex_, or Free
    tango_event_mutex_, \* holder of tango_event_mutex_, or Free
    pose_data_,         \* PoseData: retained sample per frame pair + flag
    tango_event_data_,  \* TangoEventData: the retained event
    pc,                 \* pc[t]: next statement of thread t
    pose_arg,           \* the TangoPoseData* of the running pose callback
    event_arg,          \* the TangoEvent* of the running event callback
    cur_pose,           \* Render's local cur_pose
    ret,                \* value returned by the host's last finished call
    save_calls,         \* TangoService_saveAreaDescription calls of the last SaveAdf
    reset_left,         \* members ResetPoseData has not cleared yet
    delivered,          \* events the service has delivered so far, in order
    reports,            \* arguments of updateSavingAdfProgress calls, in order
    adf_store,          \* the service's persisted metadata, per known UUID
    meta,               \* arguments, locals and service calls of the running
                        \* (or last) metadata operation
    tango_config_,      \* the member tango_config_: a handle, nullptr or unset
    config_heap,        \* the TangoConfig objects the service has handed out
    destroyed,          \* the destructor has run
    uuid_list,          \* the char* uuid_list of the last catalog query
    setup,              \* arguments and locals of the running TangoSetupConfig
    loaded_adf_string_, \* the member loaded_adf_string_
    tango_core_version_string_, \* the member tango_core_version_string_
    local_tango_config_ \* the local tango_config_ of a running GetAllAdfUuids

\* The variables of the metadata operations.
mapVars == <<adf_store, meta>>

\* The variables of the callbacks and of the host's pose and event calls,
\* without pc and ret.
sessionVars == <<pose_mutex_, tango_event_mutex_, pose_data_,
                 tango_event_data_, pose_arg, event_arg, cur_pose, save_calls,
                 reset_left, delivered, reports>>

\* The variables of the configuration and catalog operations.
configVars == <<tango_config_, config_heap, destroyed, uuid_list, setup,
                loaded_adf_string_, tango_core_version_string_,
                local_tango_config_>>

vars == <<sessionVars, pc, ret, mapVars, configVars>>

\* ---------------------------------------------------------------- bounds
\* Number of events the service delivers in one run.
MaxEvents == 3

\* Length of the longest UUID blob the catalog queries are run on.
MaxBlobLen == 5

\* Number of TangoConfig objects the service hands out in one run.
MaxConfigs == 2

\* ------------------------------------------------------------- constants
Free == "free"
Threads == {"pose_cb", "event_cb", "host"}

\* What the host's last finished call returned; op names the call.
NoRet == [op |-> "none"]

\* The three frame pairs registered for onPoseAvailable.
TrackedPairs == {"SS_T_DEVICE", "ADF_T_DEVICE", "ADF_T_SS"}

PoseStatus == {"VALID", "INVALID"}

\* Poses the service can deliver: a tracked pair or any other pair.
Poses == [pair : TrackedPairs \cup {"OTHER"}, status : PoseStatus]

\* A small set of poses for the runs that are about the locks only.
LockPoses == {[pair |-> "ADF_T_DEVICE", status |-> "VALID"],
              [pair |-> "SS_T_DEVICE", status |-> "INVALID"]}

\* No callback is running.
NoPose == [pair |-> "NONE", status |-> "NONE"]

\* ------------------------------------------------------------- PoseData
NoSample == "NONE"

\* Render's cur_pose outside Render.
NoSnapshot == [p \in TrackedPairs |-> "UNSET"]

PoseDataFields == TrackedPairs \cup {"is_relocalized"}

PoseDataInit == [pose |-> [p \in TrackedPairs |-> NoSample],
                 is_relocalized |-> FALSE]

\* An UpdatePose whose flag follows the latest area-description -> device
\* pose instead of latching.
UpdatePose_unlatched(pd, pose) ==
    IF pose.pair \notin TrackedPairs THEN pd
    ELSE [pose |-> [pd.pose EXCEPT ![pose.pair] = pose.status],
          is_relocalized |->
              IF pose.pair = "ADF_T_DEVICE" THEN pose.status = "VALID"
              ELSE pd.is_relocalized]

\* PoseData::UpdatePose: overwrite the sample of the pose's pair; a valid
\* area-description -> device pose sets the relocalization flag; other pairs
\* are ignored.
UpdatePose(pd, pose) ==
    IF pose.pair \notin TrackedPairs THEN pd
    ELSE [pose |-> [pd.pose EXCEPT ![pose.pair] = pose.status],
          is_relocalized |->
              (pd.is_relocalized
                \/ (pose.pair = "ADF_T_DEVICE" /\ pose.status = "VALID"))]

\* PoseData::ResetPoseData restricted to the members in F.
ClearFields(pd, F) ==
    [pose |-> [p \in TrackedPairs |->
                 IF p \in F THEN NoSample ELSE pd.pose[p]],
     is_relocalized |->
         IF "is_relocalized" \in F THEN FALSE ELSE pd.is_relocalized]

\* PoseData::ResetPoseData: clears all samples and the flag.
ResetPoseData(pd) == ClearFields(pd, PoseDataFields)

GetCurrentPoseData(pd) == pd.pose

PoseDataIsRelocalized(pd) == pd.is_relocalized

\* ------------------------------------------------------------ the events
AreaLearningType == "TANGO_EVENT_AREA_LEARNING"
SaveProgressKey == "AreaDescriptionSaveProgress"

Digits == {"0", "1", "2", "3", "4", "5", "6", "7", "8", "9"}

DigitVal(c) ==
    CASE c = "0" -> 0 [] c = "1" -> 1 [] c = "2" -> 2 [] c = "3" -> 3
      [] c = "4" -> 4 [] c = "5" -> 5 [] c = "6" -> 6 [] c = "7" -> 7
      [] c = "8" -> 8 [] c = "9" -> 9

\* event_value strings, as sequences of characters.
V_half == <<"0", ".", "5">>
V_quarter == <<"0", ".", "2", "5">>
V_over == <<"1", ".", "5">>
V_neg == <<"-", "0", ".", "5">>
V_oops == <<"o", "o", "p", "s">>
V_one == <<"1">>
V_037 == <<"0", ".", "3", "7">>

EventValues == {V_half, V_quarter, V_over, V_neg, V_oops, V_one, V_037}

\* No event: the retained event before the first callback, and the argument
\* outside a callback.
NoEvent == [type |-> "NONE", key |-> "", value |-> <<>>]

ProgressEvent(v) ==
    [type |-> AreaLearningType, key |-> SaveProgressKey, value |-> v]

\* Events the service can deliver: save-progress events, an event of another
\* type carrying the save-progress key, and an area-learning event with
\* another key.
Events ==
    {ProgressEvent(v) : v \in EventValues}
      \cup {[type |-> "TANGO_EVENT_GENERAL", key |-> SaveProgressKey,
             value |-> V_half],
            [type |-> AreaLearningType, key |-> "AreaDescriptionSaveProgres",
             value |-> V_quarter]}

LockEvents ==
    {ProgressEvent(V_half),
     [type |-> "TANGO_EVENT_GENERAL", key |-> "TooFewFeaturesTracked",
      value |-> V_one]}

\* std::atof on a decimal string without exponent: optional blanks, optional
\* sign, digits, optional point and digits; it stops at the first character
\* that does not fit and yields 0 when no digit was read. The result is the
\* fraction sign * num / den.
RECURSIVE ReadDigits(_, _, _, _, _)
ReadDigits(s, i, num, den, seenPoint) ==
    IF i > Len(s) THEN [num |-> num, den |-> den]
    ELSE IF s[i] \in Digits
         THEN ReadDigits(s, i + 1, num * 10 + DigitVal(s[i]),
                         IF seenPoint THEN den * 10 ELSE den, seenPoint)
    ELSE IF s[i] = "." /\ ~seenPoint
         THEN ReadDigits(s, i + 1, num, den, TRUE)
    ELSE [num |-> num, den |-> den]

RECURSIVE SkipBlanks(_, _)
SkipBlanks(s, i) ==
    IF i <= Len(s) /\ s[i] = " " THEN SkipBlanks(s, i + 1) ELSE i

Atof(s) ==
    LET i == SkipBlanks(s, 1)
        neg == i <= Len(s) /\ s[i] = "-"
        j == IF i <= Len(s) /\ s[i] \in {"-", "+"} THEN i + 1 ELSE i
        r == ReadDigits(s, j, 0, 1, FALSE)
    IN  [num |-> IF neg THEN 0 - r.num ELSE r.num, den |-> r.den]

\* The factor of line 63.
PercentScale == 100

\* Bits of the significand of a double.
DoubleBits == 53

\* Bit i (1 is the most significant) of the w-bit number x.
BitAt(x, w, i) == (x \div 2^(w - i)) % 2

\* The number whose bits, most significant first, are b.
RECURSIVE NatOfBits(_)
NatOfBits(b) ==
    IF Len(b) = 0 THEN 0
    ELSE IF Len(b) = 1 THEN b[1]
    ELSE LET h == Len(b) \div 2
         IN  NatOfBits(SubSeq(b, 1, h)) * 2^(Len(b) - h)
               + NatOfBits(SubSeq(b, h + 1, Len(b)))

\* b without its leading zeros.
StripZeros(b) ==
    IF \A i \in 1..Len(b) : b[i] = 0 THEN <<>>
    ELSE LET p == CHOOSE i \in 1..Len(b) :
                     b[i] = 1 /\ \A j \in 1..(i - 1) : b[j] = 0
         IN  SubSeq(b, p, Len(b))

\* b + 1 for a sequence of bits b.
IncBits(b) ==
    IF \A i \in 1..Len(b) : b[i] = 1
    THEN [i \in 1..(Len(b) + 1) |-> IF i = 1 THEN 1 ELSE 0]
    ELSE LET z == CHOOSE i \in 1..Len(b) :
                     b[i] = 0 /\ \A j \in (i + 1)..Len(b) : b[j] = 1
         IN  [i \in 1..Len(b) |->
                IF i < z THEN b[i] ELSE IF i = z THEN 1 ELSE 0]

\* bits * 2^exp (plus something below the last bit when sticky) rounded to a
\* double: 53 bits, to nearest, ties to even.
RoundBits(bits, exp, sticky) ==
    IF Len(bits) <= DoubleBits THEN [bits |-> bits, exp |-> exp]
    ELSE LET keep == SubSeq(bits, 1, DoubleBits)
             guard == bits[DoubleBits + 1]
             st == sticky \/ \E i \in (DoubleBits + 2)..Len(bits) : bits[i] = 1
             up == guard = 1 /\ (st \/ keep[DoubleBits] = 1)
             r == IF up THEN IncBits(keep) ELSE keep
             e == exp + Len(bits) - DoubleBits
         IN  IF Len(r) > DoubleBits
             THEN [bits |-> SubSeq(r, 1, DoubleBits), exp |-> e + 1]
             ELSE [bits |-> r, exp |-> e]

\* Long division rem / den in base 256: the first k digits after the point.
RECURSIVE FracDigits(_, _, _)
FracDigits(rem, den, k) ==
    IF k = 0 THEN <<>>
    ELSE <<(rem * 256) \div den>>
           \o FracDigits((rem * 256) % den, den, k - 1)

\* The remainder of that division after k digits.
RECURSIVE FracRem(_, _, _)
FracRem(rem, den, k) ==
    IF k = 0 THEN rem ELSE FracRem((rem * 256) % den, den, k - 1)

\* The bits of a sequence of digits of w bits each.
BitsOfDigits(digits, w) ==
    [i \in 1..(w * Len(digits)) |->
        BitAt(digits[((i - 1) \div w) + 1], w, ((i - 1) % w) + 1)]

\* The double nearest to the decimal fraction q.num / q.den, as
\* sign * bits * 2^exp: what atof returns for the string q was read from.
\* The quotient is developed to 31 bits before and 72 bits after the point,
\* which holds 54 significant bits of every ratio from 2^-18 up.
ToDouble(q) ==
    LET n == IF q.num < 0 THEN 0 - q.num ELSE q.num
        all == BitsOfDigits(<<n \div q.den>>, 31)
                 \o BitsOfDigits(FracDigits(n % q.den, q.den, 9), 8)
        r == RoundBits(StripZeros(all), 0 - 72, FracRem(n % q.den, q.den, 9) # 0)
    IN  IF n = 0 THEN [neg |-> FALSE, bits |-> <<>>, exp |-> 0]
        ELSE [neg |-> q.num < 0, bits |-> r.bits, exp |-> r.exp]

\* digits * k + carry for a number given by base-2^14 digits, most significant
\* first; the result has one digit more.
RECURSIVE MulDigits(_, _, _)
MulDigits(digits, k, carry) ==
    IF Len(digits) = 0 THEN <<carry>>
    ELSE LET v == digits[Len(digits)] * k + carry
         IN  Append(MulDigits(SubSeq(digits, 1, Len(digits) - 1), k,
                              v \div 2^14),
                    v % 2^14)

\* The double product d * k for a small positive integer k.
DoubleTimes(d, k) ==
    LET pad == [i \in 1..(56 - Len(d.bits)) |-> 0] \o d.bits
        digits == [j \in 1..4 |-> NatOfBits(SubSeq(pad, 14 * j - 13, 14 * j))]
        prod == BitsOfDigits(MulDigits(digits, k, 0), 14)
        r == RoundBits(StripZeros(prod), d.exp, FALSE)
    IN  IF d.bits = <<>> THEN d
        ELSE [neg |-> d.neg, bits |-> r.bits, exp |-> r.exp]

\* Conversion of the double d to int: truncation toward zero.
DoubleToInt(d) ==
    LET n == Len(d.bits) + d.exp
        mag == IF d.bits = <<>> \/ n <= 0 THEN 0
               ELSE IF d.exp <= 0 THEN NatOfBits(SubSeq(d.bits, 1, n))
               ELSE NatOfBits(d.bits) * 2^(d.exp)
    IN  IF d.neg THEN 0 - mag ELSE mag

\* int(ratio * 100) in double arithmetic, for the decimal fraction q.
PercentOfRatio(q) == DoubleToInt(DoubleTimes(ToDouble(q), PercentScale))

\* Line 63 computed for each value an event can carry.
ProgressTable == [v \in EventValues |-> PercentOfRatio(Atof(v))]

\* Line 63 without the factor 100.
ProgressOf_unscaled(value) == DoubleToInt(ToDouble(Atof(value)))

\* The argument of OnAdfSavingProgressChanged at line 63.
ProgressOf(value) == ProgressTable[value]

\* The condition of lines 61-62 without the comparison of the key.
IsSaveProgress_type_only(event) == event.type = AreaLearningType

\* The condition of lines 61-62.
IsSaveProgress(event) ==
    event.type = AreaLearningType /\ event.key = SaveProgressKey

\* ------------------------------------------- area-description metadata
\* UUIDs the service can resolve, and one it cannot.
KnownUuids == {"uuid-a"}
UuidArgs == KnownUuids \cup {"uuid-x"}

MetaKeys == {"name", "date"}
MetaValues == {"v1", "v2"}

\* A key without value.
Absent == "ABSENT"

MetaFields == [MetaKeys -> MetaValues \cup {Absent}]

\* The persisted metadata before the first operation.
AdfStoreInit ==
    [u \in KnownUuids |->
        [k \in MetaKeys |-> IF k = "name" THEN "v1" ELSE Absent]]

\* A TangoAreaDescriptionMetadata handle: an in-memory copy of a map's
\* metadata, or a pointer that names no metadata object.
Handle(fields) == [valid |-> TRUE, fields |-> fields]
Garbage == [valid |-> FALSE, fields |-> [k \in MetaKeys |-> Absent]]

\* The local `metadata` is declared without initialiser (lines 216, 239): it
\* starts as any pointer, among them one to a handle an earlier call left
\* behind (no handle is ever freed).
UninitHandles == {Garbage} \cup {Handle(f) : f \in MetaFields}

\* The local `output` of line 215 before TangoAreaDescriptionMetadata_get
\* sets it, and what std::string makes of it when it is never set.
Uninit == "UNINIT"
GarbageString == "GARBAGE"

NoMeta ==
    [op |-> "none", uuid |-> "", key |-> "", value |-> "",
     metadata |-> Garbage, output |-> Uninit, calls |-> <<>>,
     before |-> AdfStoreInit]

Call(fn, ok) == [fn |-> fn, ok |-> ok]

\* TangoService_getAreaDescriptionMetadata(uuid, &metadata): on success
\* metadata is a fresh copy of the persisted fields; it fails for a UUID the
\* service cannot resolve and may fail for any other reason, and then leaves
\* metadata as it was.
GetMetadataOutcomes(store, uuid, cur) ==
    {[ok |-> FALSE, metadata |-> cur]}
      \cup (IF uuid \in DOMAIN store
            THEN {[ok |-> TRUE, metadata |-> Handle(store[uuid])]}
            ELSE {})

\* TangoAreaDescriptionMetadata_set(metadata, key, size, value): writes the
\* in-memory handle or rejects the write; on a pointer that names no handle
\* the behaviour is undefined (an error return or a crash).
MetadataSetOutcomes(h, key, value) ==
    IF h.valid
    THEN {[ok |-> TRUE, crash |-> FALSE,
           metadata |-> Handle([h.fields EXCEPT ![key] = value])],
          [ok |-> FALSE, crash |-> FALSE, metadata |-> h]}
    ELSE {[ok |-> FALSE, crash |-> FALSE, metadata |-> h],
          [ok |-> FALSE, crash |-> TRUE, metadata |-> h]}

\* TangoService_saveAreaDescriptionMetadata(uuid, metadata): on success the
\* persisted fields of uuid are those of the handle; on failure the store is
\* as before. A pointer that names no handle is undefined behaviour: a crash,
\* an error, or a success that persists whatever the pointer led to.
SaveMetadataOutcomes(store, uuid, h) ==
    {[ok |-> FALSE, crash |-> FALSE, store |-> store]}
      \cup (IF uuid \in DOMAIN store /\ h.valid
            THEN {[ok |-> TRUE, crash |-> FALSE,
                   store |-> [store EXCEPT ![uuid] = h.fields]]}
            ELSE {})
      \cup (IF ~h.valid
            THEN {[ok |-> FALSE, crash |-> TRUE, store |-> store]}
            ELSE {})
      \cup (IF uuid \in DOMAIN store /\ ~h.valid
            THEN {[ok |-> TRUE, crash |-> FALSE,
                   store |-> [store EXCEPT ![uuid] = f]] : f \in MetaFields}
            ELSE {})

\* TangoAreaDescriptionMetadata_get(metadata, key, &size, &output): sets
\* output when the handle has the key, fails otherwise and leaves output
\* alone; undefined on a pointer that names no handle.
MetadataGetOutcomes(h, key, cur) ==
    IF h.valid
    THEN (IF h.fields[key] # Absent
          THEN {[ok |-> TRUE, crash |-> FALSE, output |-> h.fields[key]]}
          ELSE {[ok |-> FALSE, crash |-> FALSE, output |-> cur]})
    ELSE {[ok |-> FALSE, crash |-> FALSE, output |-> cur],
          [ok |-> FALSE, crash |-> TRUE, output |-> cur]}

\* ------------------------------------------ configuration and catalog
\* tango_config_ holds the index of an object of config_heap, nullptr, or,
\* from construction on (the constructor of lines 67-70 does not set it),
\* no defined value.
Nullptr == 0
UnsetConfig == 0 - 1

\* The UUID of a configuration without "config_load_area_description_UUID".
NoLoadUuid == <<>>

\* A TangoConfig as TangoService_getConfig(TANGO_CONFIG_DEFAULT) returns it:
\* not freed, learning mode off, no area description to load.
DefaultConfig == [frees |-> 0, learning |-> FALSE, load_uuid |-> NoLoadUuid]

TANGO_SUCCESS == "TANGO_SUCCESS"
TANGO_ERROR == "TANGO_ERROR"
TANGO_INVALID == "TANGO_INVALID"

\* Characters of the UUIDs of the blobs enumerated in full, and the
\* separator of line 350.
UuidChars == {"a", "b"}
Separator == ","

\* What TangoService_getAreaDescriptionUUIDList leaves in uuid_list: a C
\* string, or the nullptr of line 341 when it returns no data.
ServiceBlob(chars) == [null |-> FALSE, chars |-> chars]
NullBlob == [null |-> TRUE, chars |-> <<>>]

\* The blobs of at most n characters.
Blobs(n) == UNION {[1..k -> UuidChars \cup {Separator}] : k \in 0..n}

\* The listings TangoSetupConfig and the handle operations are run on.
Str_a == <<"a">>
Str_ba == <<"b", ",", "a">>
Str_abc == <<"a", ",", "b", ",", "c">>
SetupBlobs == {<<>>, Str_a, Str_ba, Str_abc}

\* The blobs the catalog query is run on.
CatalogBlobs == Blobs(MaxBlobLen) \cup SetupBlobs

\* Line 342: the query succeeds with a blob, or fails and leaves uuid_list
\* nullptr (the failure is only logged, lines 344-346).
UuidListOutcomes(B) ==
    {[ok |-> TRUE, uuid_list |-> ServiceBlob(b)] : b \in B}
      \cup {[ok |-> FALSE, uuid_list |-> NullBlob]}

\* strtok_r skipping the separators from position i: the start of the next
\* token, 0 when the string ends first.
RECURSIVE TokenStart(_, _)
TokenStart(s, i) ==
    IF i > Len(s) THEN 0
    ELSE IF s[i] = Separator THEN TokenStart(s, i + 1)
    ELSE i

\* strtok_r scanning the token that starts at i: its last position.
RECURSIVE TokenEnd(_, _)
TokenEnd(s, i) ==
    IF i + 1 > Len(s) \/ s[i + 1] = Separator THEN i
    ELSE TokenEnd(s, i + 1)

\* A tokenizer that returns the piece up to the next separator also when
\* the piece is empty (strsep rather than strtok_r).
RECURSIVE StrtokLoop_keep_empty(_, _)
StrtokLoop_keep_empty(s, i) ==
    IF i > Len(s) + 1 THEN <<>>
    ELSE LET e == IF \E k \in i..Len(s) : s[k] = Separator
                  THEN (CHOOSE k \in i..Len(s) :
                          /\ s[k] = Separator
                          /\ \A j \in i..(k - 1) : s[j] # Separator) - 1
                  ELSE Len(s)
         IN  <<SubSeq(s, i, e)>> \o StrtokLoop_keep_empty(s, e + 2)

\* lines 350-358: the strtok_r loop from the saved position i, pushing each
\* token onto the list.
RECURSIVE StrtokLoop(_, _)
StrtokLoop(s, i) ==
    LET b == TokenStart(s, i)
    IN  IF b = 0 THEN <<>>
        ELSE <<SubSeq(s, b, TokenEnd(s, b))>>
               \o StrtokLoop(s, TokenEnd(s, b) + 2)

\* lines 348-360: the list GetAdfUuids fills from uuid_list; nothing is
\* pushed for nullptr and for the empty string.
ParseUuidList(blob) ==
    IF blob.null THEN <<>>
    ELSE IF blob.chars = <<>> THEN <<>>
    ELSE StrtokLoop(blob.chars, 1)

\* TangoConfig_free(p): frees the object p names; nothing happens for
\* nullptr; on a pointer without defined value the behaviour is undefined
\* (nothing, or a crash).
FreeOutcomes(heap, p) ==
    IF p = Nullptr THEN {[crash |-> FALSE, heap |-> heap]}
    ELSE IF p = UnsetConfig
    THEN {[crash |-> FALSE, heap |-> heap], [crash |-> TRUE, heap |-> heap]}
    ELSE {[crash |-> FALSE,
           heap |-> [heap EXCEPT ![p].frees = @ + 1]]}

\* No TangoSetupConfig is running.
NoSetup == [is_area_learning_enabled |-> FALSE, is_loading_adf |-> FALSE,
            adf_list |-> <<>>, ret |-> TANGO_SUCCESS]

\* loaded_adf_string_ as the constructor sets it (line 69): "Loaded ADF: N/A".
LoadedNone == [count |-> 0, uuid |-> NoLoadUuid]

\* tango_core_version_string_ as the constructor sets it (line 68), and the
\* version the service reports.
VersionNone == "N/A"
ServiceVersion == "version"

\* What std::string makes of a char* that is nullptr or of a buffer never
\* written, when it does not crash.
GarbageChars == <<"?">>

\* ------------------------------------------------------------------ Init
\* The object after construction and GL initialisation: no callback has run.
Init ==
    /\ pose_mutex_ = Free
    /\ tango_event_mutex_ = Free
    /\ pose_data_ = PoseDataInit
    /\ tango_event_data_ = NoEvent
    /\ pc = [t \in Threads |-> "idle"]
    /\ pose_arg = NoPose
    /\ event_arg = NoEvent
    /\ cur_pose = NoSnapshot
    /\ ret = NoRet
    /\ save_calls = 0
    /\ reset_left = {}
    /\ delivered = <<>>
    /\ reports = <<>>
    /\ adf_store = AdfStoreInit
    /\ meta = NoMeta
    /\ tango_config_ = UnsetConfig
    /\ config_heap = <<>>
    /\ destroyed = FALSE
    /\ uuid_list = NullBlob
    /\ setup = NoSetup
    /\ loaded_adf_string_ = LoadedNone
    /\ tango_core_version_string_ = VersionNone
    /\ local_tango_config_ = Nullptr

Goto(t, label) == pc' = [pc EXCEPT ![t] = label]

\* ------------------------------------------------- the pose callback thread
\* The pose callback taking tango_event_mutex_ instead of pose_mutex_.
onPoseAvailable_lock_event_mutex(pose) ==
    /\ pc["pose_cb"] = "idle"
    /\ tango_event_mutex_ = Free
    /\ tango_event_mutex_' = "pose_cb"
    /\ pose_arg' = pose
    /\ Goto("pose_cb", "onPoseAvailable_UpdatePose")
    /\ UNCHANGED <<pose_mutex_, pose_data_, tango_event_data_,
                   event_arg, cur_pose, ret, save_calls, reset_left,
                   delivered, reports, mapVars,
                   configVars>>

\* line 53: the lock_guard on pose_mutex_ of a callback invoked with pose.
onPoseAvailable_lock(pose) ==
    /\ pc["pose_cb"] = "idle"
    /\ pose_mutex_ = Free
    /\ pose_mutex_' = "pose_cb"
    /\ pose_arg' = pose
    /\ Goto("pose_cb", "onPoseAvailable_UpdatePose")
    /\ UNCHANGED <<tango_event_mutex_, pose_data_, tango_event_data_,
                   event_arg, cur_pose, ret, save_calls, reset_left,
                   delivered, reports,
                   mapVars,
                   configVars>>

\* Line 54 storing the pose into a cleared PoseData instead of pose_data_.
onPoseAvailable_UpdatePose_cleared ==
    /\ pc["pose_cb"] = "onPoseAvailable_UpdatePose"
    /\ pose_data_' = UpdatePose(PoseDataInit, pose_arg)
    /\ Goto("pose_cb", "onPoseAvailable_unlock")
    /\ UNCHANGED <<pose_mutex_, tango_event_mutex_, tango_event_data_,
                   pose_arg, event_arg, cur_pose, ret, save_calls, reset_left,
                   delivered, reports, mapVars,
                   configVars>>

\* line 54
onPoseAvailable_UpdatePose ==
    /\ pc["pose_cb"] = "onPoseAvailable_UpdatePose"
    /\ pose_data_' = UpdatePose(pose_data_, pose_arg)
    /\ Goto("pose_cb", "onPoseAvailable_unlock")
    /\ UNCHANGED <<pose_mutex_, tango_event_mutex_, tango_event_data_,
                   pose_arg, event_arg, cur_pose, ret, save_calls, reset_left,
                   delivered, reports,
                   mapVars,
                   configVars>>

\* line 55: the lock_guard goes out of scope.
onPoseAvailable_unlock ==
    /\ pc["pose_cb"] = "onPoseAvailable_unlock"
    /\ pose_mutex_' = Free
    /\ pose_arg' = NoPose
    /\ Goto("pose_cb", "idle")
    /\ UNCHANGED <<tango_event_mutex_, pose_data_, tango_event_data_,
                   event_arg, cur_pose, ret, save_calls, reset_left,
                   delivered, reports,
                   mapVars,
                   configVars>>

PoseCallbacks(P) ==
    \/ \E pose \in P : onPoseAvailable_lock(pose)
    \/ onPoseAvailable_UpdatePose
    \/ onPoseAvailable_unlock

\* ------------------------------------------------ the event callback thread
\* line 58: the lock_guard on tango_event_mutex_ of a callback invoked with
\* event.
onTangoEventAvailable_lock(event) ==
    /\ pc["event_cb"] = "idle"
    /\ Len(delivered) < MaxEvents
    /\ tango_event_mutex_ = Free
    /\ tango_event_mutex_' = "event_cb"
    /\ event_arg' = event
    /\ delivered' = Append(delivered, event)
    /\ Goto("event_cb", "onTangoEventAvailable_UpdateTangoEvent")
    /\ UNCHANGED <<pose_mutex_, pose_data_, tango_event_data_, pose_arg,
                   cur_pose, ret, save_calls, reset_left, reports,
                   mapVars,
                   configVars>>

\* line 59
onTangoEventAvailable_UpdateTangoEvent ==
    /\ pc["event_cb"] = "onTangoEventAvailable_UpdateTangoEvent"
    /\ tango_event_data_' = event_arg
    /\ Goto("event_cb", "onTangoEventAvailable_check")
    /\ UNCHANGED <<pose_mutex_, tango_event_mutex_, pose_data_, pose_arg,
                   event_arg, cur_pose, ret, save_calls, reset_left,
                   delivered, reports,
                   mapVars,
                   configVars>>

\* lines 61-63: the test of type and key; when it passes the callback enters
\* OnAdfSavingProgressChanged.
onTangoEventAvailable_check ==
    /\ pc["event_cb"] = "onTangoEventAvailable_check"
    /\ IF IsSaveProgress(event_arg)
       THEN Goto("event_cb", "OnAdfSavingProgressChanged")
       ELSE Goto("event_cb", "onTangoEventAvailable_unlock")
    /\ UNCHANGED <<pose_mutex_, tango_event_mutex_, pose_data_,
                   tango_event_data_, pose_arg, event_arg, cur_pose, ret,
                   save_calls, reset_left, delivered, reports,
                   mapVars,
                   configVars>>

\* lines 376-383: the call of the activity's updateSavingAdfProgress, with the
\* argument computed at line 63; the step is the call's return.
OnAdfSavingProgressChanged ==
    /\ pc["event_cb"] = "OnAdfSavingProgressChanged"
    /\ reports' = Append(reports, ProgressOf(event_arg.value))
    /\ Goto("event_cb", "onTangoEventAvailable_unlock")
    /\ UNCHANGED <<pose_mutex_, tango_event_mutex_, pose_data_,
                   tango_event_data_, pose_arg, event_arg, cur_pose, ret,
                   save_calls, reset_left, delivered,
                   mapVars,
                   configVars>>

\* line 65: the lock_guard goes out of scope.
onTangoEventAvailable_unlock ==
    /\ pc["event_cb"] = "onTangoEventAvailable_unlock"
    /\ tango_event_mutex_' = Free
    /\ event_arg' = NoEvent
    /\ Goto("event_cb", "idle")
    /\ UNCHANGED <<pose_mutex_, pose_data_, tango_event_data_, pose_arg,
                   cur_pose, ret, save_calls, reset_left, delivered, reports,
                   mapVars,
                   configVars>>

EventCallbacks(E) ==
    \/ \E event \in E : onTangoEventAvailable_lock(event)
    \/ onTangoEventAvailable_UpdateTangoEvent
    \/ onTangoEventAvailable_check
    \/ OnAdfSavingProgressChanged
    \/ onTangoEventAvailable_unlock

\* ---------------------------------------------------------- the host thread
\* lines 284-288: Render takes pose_mutex_ in the inner block.
Render_lock ==
    /\ pc["host"] = "idle"
    /\ pose_mutex_ = Free
    /\ pose_mutex_' = "host"
    /\ ret' = NoRet
    /\ Goto("host", "Render_GetCurrentPoseData")
    /\ UNCHANGED <<tango_event_mutex_, pose_data_, tango_event_data_,
                   pose_arg, event_arg, cur_pose, save_calls, reset_left,
                   delivered, reports,
                   mapVars,
                   configVars>>

\* line 289
Render_GetCurrentPoseData ==
    /\ pc["host"] = "Render_GetCurrentPoseData"
    /\ cur_pose' = GetCurrentPoseData(pose_data_)
    /\ Goto("host", "Render_unlock")
    /\ UNCHANGED <<pose_mutex_, tango_event_mutex_, pose_data_,
                   tango_event_data_, pose_arg, event_arg, ret, save_calls,
                   reset_left, delivered, reports,
                   mapVars,
                   configVars>>

\* line 290: the inner block ends and releases pose_mutex_.
Render_unlock ==
    /\ pc["host"] = "Render_unlock"
    /\ pose_mutex_' = Free
    /\ Goto("host", "Render_IsRelocalized")
    /\ UNCHANGED <<tango_event_mutex_, pose_data_, tango_event_data_,
                   pose_arg, event_arg, cur_pose, ret, save_calls, reset_left,
                   delivered, reports,
                   mapVars,
                   configVars>>

\* line 291: pose_data_.IsRelocalized() is read and handed, with cur_pose, to
\* the scene.
Render_IsRelocalized ==
    /\ pc["host"] = "Render_IsRelocalized"
    /\ ret' = [op |-> "Render", pose |-> cur_pose,
               is_relocalized |-> PoseDataIsRelocalized(pose_data_)]
    /\ cur_pose' = NoSnapshot
    /\ Goto("host", "idle")
    /\ UNCHANGED <<pose_mutex_, tango_event_mutex_, pose_data_,
                   tango_event_data_, pose_arg, event_arg, save_calls,
                   reset_left, delivered, reports,
                   mapVars,
                   configVars>>

Render ==
    \/ Render_lock
    \/ Render_GetCurrentPoseData
    \/ Render_unlock
    \/ Render_IsRelocalized

\* The empty std::string SaveAdf returns without a UUID.
NoUuid == ""

\* UUIDs TangoService_saveAreaDescription can hand back.
NewUuids == {"uuid-new"}

\* lines 194-195: SaveAdf is entered.
SaveAdf_begin ==
    /\ pc["host"] = "idle"
    /\ ret' = NoRet
    /\ save_calls' = 0
    /\ Goto("host", "SaveAdf_IsRelocalized")
    /\ UNCHANGED <<pose_mutex_, tango_event_mutex_, pose_data_,
                   tango_event_data_, pose_arg, event_arg, cur_pose,
                   reset_left, delivered, reports,
                   mapVars,
                   configVars>>

\* SaveAdf without the guard of lines 196-198: the store is asked whatever the
\* flag says.
SaveAdf_IsRelocalized_unguarded ==
    /\ pc["host"] = "SaveAdf_IsRelocalized"
    /\ ret' = ret
    /\ Goto("host", "SaveAdf_saveAreaDescription")
    /\ UNCHANGED <<pose_mutex_, tango_event_mutex_, pose_data_,
                   tango_event_data_, pose_arg, event_arg, cur_pose,
                   save_calls, reset_left, delivered, reports, mapVars,
                   configVars>>

\* lines 196-198: the guard on pose_data_.IsRelocalized().
SaveAdf_IsRelocalized ==
    /\ pc["host"] = "SaveAdf_IsRelocalized"
    /\ IF ~PoseDataIsRelocalized(pose_data_)
       THEN /\ ret' = [op |-> "SaveAdf", uuid |-> NoUuid,
                       relocalized |-> FALSE, saved |-> FALSE]
            /\ Goto("host", "idle")
       ELSE /\ ret' = ret
            /\ Goto("host", "SaveAdf_saveAreaDescription")
    /\ UNCHANGED <<pose_mutex_, tango_event_mutex_, pose_data_,
                   tango_event_data_, pose_arg, event_arg, cur_pose,
                   save_calls, reset_left, delivered, reports,
                   mapVars,
                   configVars>>

\* SaveAdf building the returned string from the UUID buffer whatever
\* TangoService_saveAreaDescription returned.
SaveAdf_saveAreaDescription_unchecked ==
    /\ pc["host"] = "SaveAdf_saveAreaDescription"
    /\ save_calls' = save_calls + 1
    /\ \E ok \in BOOLEAN, uuid \in NewUuids :
          ret' = [op |-> "SaveAdf", uuid |-> uuid,
                  relocalized |-> TRUE, saved |-> ok]
    /\ Goto("host", "idle")
    /\ UNCHANGED <<pose_mutex_, tango_event_mutex_, pose_data_,
                   tango_event_data_, pose_arg, event_arg, cur_pose,
                   reset_left, delivered, reports, mapVars,
                   configVars>>

\* lines 199-210: the one call of the store's save primitive succeeds (line
\* 201) and the string is built from the UUID (line 203), or fails and the
\* string stays empty (lines 204-209).
SaveAdf_saveAreaDescription ==
    /\ pc["host"] = "SaveAdf_saveAreaDescription"
    /\ save_calls' = save_calls + 1
    /\ \E ok \in BOOLEAN :
          IF ok
          THEN \E uuid \in NewUuids :
                  ret' = [op |-> "SaveAdf", uuid |-> uuid,
                          relocalized |-> TRUE, saved |-> TRUE]
          ELSE ret' = [op |-> "SaveAdf", uuid |-> NoUuid,
                       relocalized |-> TRUE, saved |-> FALSE]
    /\ Goto("host", "idle")
    /\ UNCHANGED <<pose_mutex_, tango_event_mutex_, pose_data_,
                   tango_event_data_, pose_arg, event_arg, cur_pose,
                   reset_left, delivered, reports,
                   mapVars,
                   configVars>>

SaveAdf ==
    \/ SaveAdf_begin
    \/ SaveAdf_IsRelocalized
    \/ SaveAdf_saveAreaDescription

\* lines 294-295: FreeContent calls pose_data_.ResetPoseData() without taking
\* pose_mutex_. The reset is not one atomic write: it clears some members,
\* then the others, so that a callback running in between sees and leaves a
\* mix.
FreeContent_begin ==
    /\ pc["host"] = "idle"
    /\ ret' = NoRet
    /\ \E F \in SUBSET PoseDataFields :
          /\ pose_data_' = ClearFields(pose_data_, F)
          /\ reset_left' = PoseDataFields \ F
    /\ Goto("host", "FreeContent_ResetPoseData")
    /\ UNCHANGED <<pose_mutex_, tango_event_mutex_, tango_event_data_,
                   pose_arg, event_arg, cur_pose, save_calls, delivered,
                   reports,
                   mapVars,
                   configVars>>

\* lines 295-297: the rest of ResetPoseData, and the return.
FreeContent_ResetPoseData ==
    /\ pc["host"] = "FreeContent_ResetPoseData"
    /\ pose_data_' = ClearFields(pose_data_, reset_left)
    /\ reset_left' = {}
    /\ ret' = [op |-> "FreeContent"]
    /\ Goto("host", "idle")
    /\ UNCHANGED <<pose_mutex_, tango_event_mutex_, tango_event_data_,
                   pose_arg, event_arg, cur_pose, save_calls, delivered,
                   reports,
                   mapVars,
                   configVars>>

FreeContent ==
    \/ FreeContent_begin
    \/ FreeContent_ResetPoseData

\* lines 299-300
IsRelocalized_lock ==
    /\ pc["host"] = "idle"
    /\ pose_mutex_ = Free
    /\ pose_mutex_' = "host"
    /\ ret' = NoRet
    /\ Goto("host", "IsRelocalized_read")
    /\ UNCHANGED <<tango_event_mutex_, pose_data_, tango_event_data_,
                   pose_arg, event_arg, cur_pose, save_calls, reset_left,
                   delivered, reports,
                   mapVars,
                   configVars>>

\* line 301: the return value is computed.
IsRelocalized_read ==
    /\ pc["host"] = "IsRelocalized_read"
    /\ ret' = [op |-> "IsRelocalized",
               value |-> PoseDataIsRelocalized(pose_data_)]
    /\ Goto("host", "IsRelocalized_unlock")
    /\ UNCHANGED <<pose_mutex_, tango_event_mutex_, pose_data_,
                   tango_event_data_, pose_arg, event_arg, cur_pose,
                   save_calls, reset_left, delivered, reports,
                   mapVars,
                   configVars>>

\* line 302: the lock_guard goes out of scope.
IsRelocalized_unlock ==
    /\ pc["host"] = "IsRelocalized_unlock"
    /\ pose_mutex_' = Free
    /\ Goto("host", "idle")
    /\ UNCHANGED <<tango_event_mutex_, pose_data_, tango_event_data_,
                   pose_arg, event_arg, cur_pose, ret, save_calls, reset_left,
                   delivered, reports,
                   mapVars,
                   configVars>>

IsRelocalized ==
    \/ IsRelocalized_lock
    \/ IsRelocalized_read
    \/ IsRelocalized_unlock

\* The three accessors of lines 304-317: the sample each one renders and the
\* labels of its statements.
GetStartServiceTDeviceString ==
    [pair |-> "SS_T_DEVICE", read |-> "GetStartServiceTDeviceString_read",
     unlock |-> "GetStartServiceTDeviceString_unlock"]

GetAdfTDeviceString ==
    [pair |-> "ADF_T_DEVICE", read |-> "GetAdfTDeviceString_read",
     unlock |-> "GetAdfTDeviceString_unlock"]

GetAdfTStartServiceString ==
    [pair |-> "ADF_T_SS", read |-> "GetAdfTStartServiceString_read",
     unlock |-> "GetAdfTStartServiceString_unlock"]

PoseStringAccessors ==
    {GetStartServiceTDeviceString, GetAdfTDeviceString,
     GetAdfTStartServiceString}

\* The lock_guard on pose_mutex_ of accessor a.
GetPoseString_lock(a) ==
    /\ pc["host"] = "idle"
    /\ pose_mutex_ = Free
    /\ pose_mutex_' = "host"
    /\ ret' = NoRet
    /\ Goto("host", a.read)
    /\ UNCHANGED <<tango_event_mutex_, pose_data_, tango_event_data_,
                   pose_arg, event_arg, cur_pose, save_calls, reset_left,
                   delivered, reports,
                   mapVars,
                   configVars>>

\* The rendering of the retained sample of a's pair.
GetPoseString_read(a) ==
    /\ pc["host"] = a.read
    /\ ret' = [op |-> "GetPoseString", pair |-> a.pair,
               value |-> pose_data_.pose[a.pair]]
    /\ Goto("host", a.unlock)
    /\ UNCHANGED <<pose_mutex_, tango_event_mutex_, pose_data_,
                   tango_event_data_, pose_arg, event_arg, cur_pose,
                   save_calls, reset_left, delivered, reports,
                   mapVars,
                   configVars>>

\* The lock_guard of accessor a goes out of scope.
GetPoseString_unlock(a) ==
    /\ pc["host"] = a.unlock
    /\ pose_mutex_' = Free
    /\ Goto("host", "idle")
    /\ UNCHANGED <<tango_event_mutex_, pose_data_, tango_event_data_,
                   pose_arg, event_arg, cur_pose, ret, save_calls, reset_left,
                   delivered, reports,
                   mapVars,
                   configVars>>

GetPoseString ==
    \E a \in PoseStringAccessors :
        \/ GetPoseString_lock(a)
        \/ GetPoseString_read(a)
        \/ GetPoseString_unlock(a)

\* TangoEventData::GetTangoEventString: the rendering of the retained event,
\* or a sentinel when no event has been received.
GetTangoEventString(ed) ==
    IF ed = NoEvent THEN [op |-> "GetEventString", event |-> "no event"]
    ELSE [op |-> "GetEventString", event |-> ed]

\* lines 319-320
GetEventString_lock ==
    /\ pc["host"] = "idle"
    /\ tango_event_mutex_ = Free
    /\ tango_event_mutex_' = "host"
    /\ ret' = NoRet
    /\ Goto("host", "GetEventString_read")
    /\ UNCHANGED <<pose_mutex_, pose_data_, tango_event_data_, pose_arg,
                   event_arg, cur_pose, save_calls, reset_left, delivered,
                   reports,
                   mapVars,
                   configVars>>

\* line 321: the return value is computed.
GetEventString_read ==
    /\ pc["host"] = "GetEventString_read"
    /\ ret' = GetTangoEventString(tango_event_data_)
    /\ Goto("host", "GetEventString_unlock")
    /\ UNCHANGED <<pose_mutex_, tango_event_mutex_, pose_data_,
                   tango_event_data_, pose_arg, event_arg, cur_pose,
                   save_calls, reset_left, delivered, reports,
                   mapVars,
                   configVars>>

\* GetEventString returning with tango_event_mutex_ still held.
GetEventString_unlock_kept ==
    /\ pc["host"] = "GetEventString_unlock"
    /\ tango_event_mutex_' = tango_event_mutex_
    /\ Goto("host", "idle")
    /\ UNCHANGED <<pose_mutex_, pose_data_, tango_event_data_, pose_arg,
                   event_arg, cur_pose, ret, save_calls, reset_left,
                   delivered, reports, mapVars,
                   configVars>>

\* line 322: the lock_guard goes out of scope.
GetEventString_unlock ==
    /\ pc["host"] = "GetEventString_unlock"
    /\ tango_event_mutex_' = Free
    /\ Goto("host", "idle")
    /\ UNCHANGED <<pose_mutex_, pose_data_, tango_event_data_, pose_arg,
                   event_arg, cur_pose, ret, save_calls, reset_left,
                   delivered, reports,
                   mapVars,
                   configVars>>

GetEventString ==
    \/ GetEventString_lock
    \/ GetEventString_read
    \/ GetEventString_unlock

\* The host's calls that touch pose_data_.
HostPoseCalls ==
    \/ Render
    \/ SaveAdf
    \/ FreeContent
    \/ IsRelocalized
    \/ GetPoseString

\* ------------------------------------------------ the metadata operations
\* lines 212-216: GetAdfMetadataValue is entered; metadata and output start
\* without value.
GetAdfMetadataValue_begin(uuid, key) ==
    /\ pc["host"] = "idle"
    /\ ret' = NoRet
    /\ \E h \in UninitHandles :
          meta' = [op |-> "GetAdfMetadataValue", uuid |-> uuid, key |-> key,
                   value |-> "", metadata |-> h, output |-> Uninit,
                   calls |-> <<>>, before |-> adf_store]
    /\ Goto("host", "GetAdfMetadataValue_getMetadata")
    /\ UNCHANGED <<sessionVars, adf_store, configVars>>

\* lines 219-223: the handle is fetched; a failure is logged and the method
\* goes on.
GetAdfMetadataValue_getMetadata ==
    /\ pc["host"] = "GetAdfMetadataValue_getMetadata"
    /\ \E o \in GetMetadataOutcomes(adf_store, meta.uuid, meta.metadata) :
          meta' = [meta EXCEPT !.metadata = o.metadata,
                               !.calls = Append(@, Call("getMetadata", o.ok))]
    /\ Goto("host", "GetAdfMetadataValue_get")
    /\ UNCHANGED <<sessionVars, ret, adf_store, configVars>>

\* lines 226-232: the key is read from the handle; a failure is logged and
\* the method goes on.
GetAdfMetadataValue_get ==
    /\ pc["host"] = "GetAdfMetadataValue_get"
    /\ \E o \in MetadataGetOutcomes(meta.metadata, meta.key, meta.output) :
          /\ meta' = [meta EXCEPT !.output = o.output,
                                  !.calls = Append(@, Call("get", o.ok))]
          /\ IF o.crash THEN Goto("host", "crashed")
             ELSE Goto("host", "GetAdfMetadataValue_return")
    /\ UNCHANGED <<sessionVars, ret, adf_store, configVars>>

\* line 233: std::string(output); on an output that was never set this is
\* undefined: a crash or a string of whatever the pointer leads to.
GetAdfMetadataValue_return ==
    /\ pc["host"] = "GetAdfMetadataValue_return"
    /\ IF meta.output # Uninit
       THEN /\ ret' = [op |-> "GetAdfMetadataValue", value |-> meta.output]
            /\ Goto("host", "idle")
       ELSE \/ /\ ret' = [op |-> "GetAdfMetadataValue",
                          value |-> GarbageString]
               /\ Goto("host", "idle")
            \/ /\ ret' = ret
               /\ Goto("host", "crashed")
    /\ UNCHANGED <<sessionVars, adf_store, meta, configVars>>

GetAdfMetadataValue ==
    \/ \E uuid \in UuidArgs, key \in MetaKeys :
          GetAdfMetadataValue_begin(uuid, key)
    \/ GetAdfMetadataValue_getMetadata
    \/ GetAdfMetadataValue_get
    \/ GetAdfMetadataValue_return

\* lines 236-239: SetAdfMetadataValue is entered; metadata starts without
\* value.
SetAdfMetadataValue_begin(uuid, key, value) ==
    /\ pc["host"] = "idle"
    /\ ret' = NoRet
    /\ \E h \in UninitHandles :
          meta' = [op |-> "SetAdfMetadataValue", uuid |-> uuid, key |-> key,
                   value |-> value, metadata |-> h, output |-> Uninit,
                   calls |-> <<>>, before |-> adf_store]
    /\ Goto("host", "SetAdfMetadataValue_getMetadata")
    /\ UNCHANGED <<sessionVars, adf_store, configVars>>

\* lines 240-244: the handle is fetched; a failure is logged and the method
\* goes on.
SetAdfMetadataValue_getMetadata ==
    /\ pc["host"] = "SetAdfMetadataValue_getMetadata"
    /\ \E o \in GetMetadataOutcomes(adf_store, meta.uuid, meta.metadata) :
          meta' = [meta EXCEPT !.metadata = o.metadata,
                               !.calls = Append(@, Call("getMetadata", o.ok))]
    /\ Goto("host", "SetAdfMetadataValue_set")
    /\ UNCHANGED <<sessionVars, ret, adf_store, configVars>>

\* lines 245-250: the in-memory handle is written; a failure is logged and
\* the method goes on.
SetAdfMetadataValue_set ==
    /\ pc["host"] = "SetAdfMetadataValue_set"
    /\ \E o \in MetadataSetOutcomes(meta.metadata, meta.key, meta.value) :
          /\ meta' = [meta EXCEPT !.metadata = o.metadata,
                                  !.calls = Append(@, Call("set", o.ok))]
          /\ IF o.crash THEN Goto("host", "crashed")
             ELSE Goto("host", "SetAdfMetadataValue_save")
    /\ UNCHANGED <<sessionVars, ret, adf_store, configVars>>

\* A persist step that leaves the written key in the store also when the
\* service reports failure.
SetAdfMetadataValue_save_partial ==
    /\ pc["host"] = "SetAdfMetadataValue_save"
    /\ \E o \in SaveMetadataOutcomes(adf_store, meta.uuid, meta.metadata) :
          /\ adf_store' =
                IF o.ok \/ meta.uuid \notin DOMAIN adf_store THEN o.store
                ELSE [adf_store EXCEPT
                        ![meta.uuid][meta.key] = meta.metadata.fields[meta.key]]
          /\ meta' = [meta EXCEPT !.calls = Append(@, Call("save", o.ok))]
          /\ IF o.crash
             THEN ret' = ret /\ Goto("host", "crashed")
             ELSE ret' = [op |-> "SetAdfMetadataValue"] /\ Goto("host", "idle")
    /\ UNCHANGED <<sessionVars, configVars>>

\* lines 251-256: the handle is persisted; a failure is logged; the method
\* returns nothing.
SetAdfMetadataValue_save ==
    /\ pc["host"] = "SetAdfMetadataValue_save"
    /\ \E o \in SaveMetadataOutcomes(adf_store, meta.uuid, meta.metadata) :
          /\ adf_store' = o.store
          /\ meta' = [meta EXCEPT !.calls = Append(@, Call("save", o.ok))]
          /\ IF o.crash
             THEN ret' = ret /\ Goto("host", "crashed")
             ELSE ret' = [op |-> "SetAdfMetadataValue"] /\ Goto("host", "idle")
    /\ UNCHANGED <<sessionVars, configVars>>

SetAdfMetadataValue ==
    \/ \E uuid \in UuidArgs, key \in MetaKeys, value \in MetaValues :
          SetAdfMetadataValue_begin(uuid, key, value)
    \/ SetAdfMetadataValue_getMetadata
    \/ SetAdfMetadataValue_set
    \/ SetAdfMetadataValue_save

\* ------------------------------- the configuration and catalog operations
\* lines 339-361: GetAdfUuids called with an empty list, as line 117 does.
\* It returns nothing; the caller has the list.
GetAdfUuids(B) ==
    /\ pc["host"] = "idle"
    /\ ~destroyed
    /\ \E o \in UuidListOutcomes(B) :
          /\ uuid_list' = o.uuid_list
          /\ ret' = [op |-> "GetAdfUuids",
                     adf_list |-> ParseUuidList(o.uuid_list)]
    /\ pc' = pc
    /\ UNCHANGED <<sessionVars, mapVars, tango_config_, config_heap,
                   destroyed, setup, loaded_adf_string_,
                   tango_core_version_string_, local_tango_config_>>

\* lines 258-262: GetAllAdfUuids fetches a configuration into a local that
\* shadows the member; a nullptr is only logged.
GetAllAdfUuids_getConfig ==
    /\ pc["host"] = "idle"
    /\ ~destroyed
    /\ ret' = NoRet
    /\ \/ /\ local_tango_config_' = Nullptr
          /\ config_heap' = config_heap
       \/ /\ Len(config_heap) < MaxConfigs
          /\ config_heap' = Append(config_heap, DefaultConfig)
          /\ local_tango_config_' = Len(config_heap) + 1
    /\ Goto("host", "GetAllAdfUuids_getAreaDescriptionUUIDList")
    /\ UNCHANGED <<sessionVars, mapVars, tango_config_, destroyed, uuid_list,
                   setup, loaded_adf_string_, tango_core_version_string_>>

\* lines 264-271: the blob is queried and returned as a std::string; the
\* local configuration goes out of scope. std::string(nullptr) is undefined:
\* a crash, or a string of whatever is found.
GetAllAdfUuids_getAreaDescriptionUUIDList(B) ==
    /\ pc["host"] = "GetAllAdfUuids_getAreaDescriptionUUIDList"
    /\ local_tango_config_' = Nullptr
    /\ \E o \in UuidListOutcomes(B) :
          /\ uuid_list' = o.uuid_list
          /\ IF o.uuid_list.null
             THEN \/ /\ ret' = [op |-> "GetAllAdfUuids",
                                uuids |-> GarbageChars]
                     /\ Goto("host", "idle")
                  \/ /\ ret' = ret
                     /\ Goto("host", "crashed")
             ELSE /\ ret' = [op |-> "GetAllAdfUuids",
                             uuids |-> o.uuid_list.chars]
                  /\ Goto("host", "idle")
    /\ UNCHANGED <<sessionVars, mapVars, tango_config_, config_heap,
                   destroyed, setup, loaded_adf_string_,
                   tango_core_version_string_>>

GetAllAdfUuids(B) ==
    \/ GetAllAdfUuids_getConfig
    \/ GetAllAdfUuids_getAreaDescriptionUUIDList(B)

\* lines 94-103: the member takes what TangoService_getConfig returns,
\* whatever it held; on nullptr the method returns TANGO_ERROR.
TangoSetupConfig_getConfig(is_area_learning_enabled, is_loading_adf) ==
    /\ pc["host"] = "idle"
    /\ ~destroyed
    /\ \/ /\ tango_config_' = Nullptr
          /\ config_heap' = config_heap
          /\ setup' = NoSetup
          /\ ret' = [op |-> "TangoSetupConfig", code |-> TANGO_ERROR]
          /\ pc' = pc
       \/ /\ Len(config_heap) < MaxConfigs
          /\ config_heap' = Append(config_heap, DefaultConfig)
          /\ tango_config_' = Len(config_heap) + 1
          /\ setup' = [is_area_learning_enabled |-> is_area_learning_enabled,
                       is_loading_adf |-> is_loading_adf,
                       adf_list |-> <<>>, ret |-> TANGO_SUCCESS]
          /\ ret' = NoRet
          /\ Goto("host", "TangoSetupConfig_setBool")
    /\ UNCHANGED <<sessionVars, mapVars, destroyed, uuid_list,
                   loaded_adf_string_, tango_core_version_string_,
                   local_tango_config_>>

\* lines 105-113: learning mode is set; a failure returns its code.
TangoSetupConfig_setBool ==
    /\ pc["host"] = "TangoSetupConfig_setBool"
    /\ \E ok \in BOOLEAN :
          IF ok
          THEN /\ config_heap' =
                     [config_heap EXCEPT ![tango_config_].learning =
                                            setup.is_area_learning_enabled]
               /\ UNCHANGED <<setup, ret>>
               /\ Goto("host", IF setup.is_loading_adf
                               THEN "TangoSetupConfig_GetAdfUuids"
                               ELSE "TangoSetupConfig_GetTangoServiceVersion")
          ELSE /\ config_heap' = config_heap
               /\ setup' = NoSetup
               /\ ret' = [op |-> "TangoSetupConfig", code |-> TANGO_INVALID]
               /\ Goto("host", "idle")
    /\ UNCHANGED <<sessionVars, mapVars, tango_config_, destroyed, uuid_list,
                   loaded_adf_string_, tango_core_version_string_,
                   local_tango_config_>>

\* lines 116-119: the catalog is listed into adf_list; an empty list skips
\* the selection.
TangoSetupConfig_GetAdfUuids(B) ==
    /\ pc["host"] = "TangoSetupConfig_GetAdfUuids"
    /\ \E o \in UuidListOutcomes(B) :
          /\ uuid_list' = o.uuid_list
          /\ setup' = [setup EXCEPT !.adf_list = ParseUuidList(o.uuid_list)]
          /\ Goto("host", IF ParseUuidList(o.uuid_list) # <<>>
                          THEN "TangoSetupConfig_setString"
                          ELSE "TangoSetupConfig_GetTangoServiceVersion")
    /\ UNCHANGED <<sessionVars, mapVars, ret, tango_config_, config_heap,
                   destroyed, loaded_adf_string_, tango_core_version_string_,
                   local_tango_config_>>

\* Lines 120-130 taking the first entry of the list (front() for back()).
TangoSetupConfig_setString_front ==
    /\ pc["host"] = "TangoSetupConfig_setString"
    /\ loaded_adf_string_' = [count |-> Len(setup.adf_list),
                              uuid |-> Head(setup.adf_list)]
    /\ \E ok \in BOOLEAN :
          IF ok
          THEN /\ config_heap' =
                     [config_heap EXCEPT ![tango_config_].load_uuid =
                                            Head(setup.adf_list)]
               /\ setup' = [setup EXCEPT !.ret = TANGO_SUCCESS]
          ELSE /\ config_heap' = config_heap
               /\ setup' = [setup EXCEPT !.ret = TANGO_INVALID]
    /\ Goto("host", "TangoSetupConfig_GetTangoServiceVersion")
    /\ UNCHANGED <<sessionVars, mapVars, ret, tango_config_, destroyed,
                   uuid_list, tango_core_version_string_, local_tango_config_>>

\* lines 120-130: the last entry of the list is described in
\* loaded_adf_string_ and set as the area description to load; a failure of
\* TangoConfig_setString is logged and kept in ret.
TangoSetupConfig_setString ==
    /\ pc["host"] = "TangoSetupConfig_setString"
    /\ loaded_adf_string_' = [count |-> Len(setup.adf_list),
                              uuid |-> setup.adf_list[Len(setup.adf_list)]]
    /\ \E ok \in BOOLEAN :
          IF ok
          THEN /\ config_heap' =
                     [config_heap EXCEPT ![tango_config_].load_uuid =
                        setup.adf_list[Len(setup.adf_list)]]
               /\ setup' = [setup EXCEPT !.ret = TANGO_SUCCESS]
          ELSE /\ config_heap' = config_heap
               /\ setup' = [setup EXCEPT !.ret = TANGO_INVALID]
    /\ Goto("host", "TangoSetupConfig_GetTangoServiceVersion")
    /\ UNCHANGED <<sessionVars, mapVars, ret, tango_config_, destroyed,
                   uuid_list, tango_core_version_string_, local_tango_config_>>

\* lines 133-135 and 362-373: the version is read into a buffer and kept;
\* when TangoConfig_getString fails the buffer was never written and the
\* string made of it is undefined (anything, or a crash). ret is returned.
TangoSetupConfig_GetTangoServiceVersion ==
    /\ pc["host"] = "TangoSetupConfig_GetTangoServiceVersion"
    /\ \/ /\ tango_core_version_string_' \in {ServiceVersion, GarbageString}
          /\ ret' = [op |-> "TangoSetupConfig", code |-> setup.ret]
          /\ setup' = NoSetup
          /\ Goto("host", "idle")
       \/ /\ UNCHANGED <<tango_core_version_string_, ret, setup>>
          /\ Goto("host", "crashed")
    /\ UNCHANGED <<sessionVars, mapVars, tango_config_, config_heap,
                   destroyed, uuid_list, loaded_adf_string_,
                   local_tango_config_>>

TangoSetupConfig(B) ==
    \/ \E is_area_learning_enabled, is_loading_adf \in BOOLEAN :
          TangoSetupConfig_getConfig(is_area_learning_enabled, is_loading_adf)
    \/ TangoSetupConfig_setBool
    \/ TangoSetupConfig_GetAdfUuids(B)
    \/ TangoSetupConfig_setString
    \/ TangoSetupConfig_GetTangoServiceVersion

\* lines 179-188: the member's configuration is freed and the member set to
\* nullptr.
TangoDisconnect ==
    /\ pc["host"] = "idle"
    /\ ~destroyed
    /\ \E o \in FreeOutcomes(config_heap, tango_config_) :
          /\ config_heap' = o.heap
          /\ IF o.crash
             THEN /\ UNCHANGED <<tango_config_, ret>>
                  /\ Goto("host", "crashed")
             ELSE /\ tango_config_' = Nullptr
                  /\ ret' = [op |-> "TangoDisconnect"]
                  /\ pc' = pc
    /\ UNCHANGED <<sessionVars, mapVars, destroyed, uuid_list, setup,
                   loaded_adf_string_, tango_core_version_string_,
                   local_tango_config_>>

\* lines 72-77: the destructor frees the member's configuration; the member
\* keeps its value and the object is gone.
AreaLearningApp_destructor ==
    /\ pc["host"] = "idle"
    /\ ~destroyed
    /\ destroyed' = TRUE
    /\ \E o \in FreeOutcomes(config_heap, tango_config_) :
          /\ config_heap' = o.heap
          /\ IF o.crash
             THEN ret' = ret /\ Goto("host", "crashed")
             ELSE ret' = [op |-> "~AreaLearningApp"] /\ pc' = pc
    /\ UNCHANGED <<sessionVars, mapVars, tango_config_, uuid_list, setup,
                   loaded_adf_string_, tango_core_version_string_,
                   local_tango_config_>>

\* ------------------------------------------------------- specifications
\* Pose ingestion against the host's pose readers, saver and teardown.
NextPose ==
    \/ PoseCallbacks(Poses)
    \/ HostPoseCalls

SpecPose == Init /\ [][NextPose]_vars

\* Event ingestion against the host's event reader.
NextEvent ==
    \/ EventCallbacks(Events)
    \/ GetEventString

SpecEvent == Init /\ [][NextEvent]_vars

\* The three threads together, on small inputs.
NextLocks ==
    \/ PoseCallbacks(LockPoses)
    \/ EventCallbacks(LockEvents)
    \/ HostPoseCalls
    \/ GetEventString

SpecLocks == Init /\ [][NextLocks]_vars

\* The host's metadata operations against the service's store.
NextMeta ==
    \/ GetAdfMetadataValue
    \/ SetAdfMetadataValue

SpecMeta == Init /\ [][NextMeta]_vars

\* The catalog listing on every blob of at most MaxBlobLen characters.
NextCatalog ==
    \/ GetAdfUuids(CatalogBlobs)

SpecCatalog == Init /\ [][NextCatalog]_vars

\* The life of the configuration handles: setup, listing, disconnect and
\* destruction.
NextConfig ==
    \/ TangoSetupConfig(SetupBlobs)
    \/ GetAllAdfUuids(SetupBlobs)
    \/ TangoDisconnect
    \/ AreaLearningApp_destructor

SpecConfig == Init /\ [][NextConfig]_vars

\* ------------------------------------------------------------- the claims
\* Statements of the host that read pose_data_.
PoseReadSteps ==
    {"Render_GetCurrentPoseData", "Render_IsRelocalized",
     "SaveAdf_IsRelocalized", "IsRelocalized_read"}
      \cup {a.read : a \in PoseStringAccessors}

\* The host has moved in this step.
HostStep == pc'["host"] # pc["host"]

\* C1: a SaveAdf whose guard finds the session not relocalized returns the
\* empty string (no UUID) and has made no call of the store's save primitive,
\* whatever callbacks and host calls came before.
C1_SaveNotRelocalizedSkipsStore ==
    [][(pc["host"] = "SaveAdf_IsRelocalized" /\ HostStep
          /\ ~pose_data_.is_relocalized)
         => (/\ pc'["host"] = "idle"
             /\ ret'.op = "SaveAdf"
             /\ ret'.uuid = NoUuid
             /\ save_calls' = 0)]_vars

\* C1 witness: after pose callbacks (an invalid area-description pose is
\* retained), a SaveAdf has returned without UUID and without a store call.
C1_Witness ==
    /\ pc["host"] = "idle"
    /\ ret.op = "SaveAdf"
    /\ ~ret.relocalized
    /\ ret.uuid = NoUuid
    /\ save_calls = 0
    /\ pose_data_.pose["ADF_T_DEVICE"] = "INVALID"

\* C2: in GetAdfMetadataValue no read of the key from the handle follows a
\* failed fetch of the handle.
C2_NoReadAfterFailedFetch ==
    meta.op = "GetAdfMetadataValue"
      => \A i, j \in DOMAIN meta.calls :
            (i < j /\ meta.calls[i] = Call("getMetadata", FALSE))
              => meta.calls[j].fn # "get"

\* C3: in SetAdfMetadataValue a failed fetch is followed by neither the
\* in-memory set nor the persist call, and a failed in-memory set is not
\* followed by the persist call.
C3_FailureAbortsLaterPhases ==
    meta.op = "SetAdfMetadataValue"
      => \A i, j \in DOMAIN meta.calls :
            (i < j /\ ~meta.calls[i].ok)
              => ~(/\ meta.calls[i].fn \in {"getMetadata", "set"}
                   /\ meta.calls[j].fn \in {"set", "save"})

\* A persist call of the operation has succeeded.
PersistSucceeded ==
    \E i \in DOMAIN meta.calls : meta.calls[i] = Call("save", TRUE)

C5_ReportOutsideEventLock ==
    pc["event_cb"] = "OnAdfSavingProgressChanged"
      => tango_event_mutex_ # "event_cb"

\* C6: every read of pose_data_ or tango_event_data_ by the host is made
\* while the host holds the mutex the writer takes, so that no read overlaps
\* an UpdatePose or UpdateTangoEvent of a callback.
C6_ReadsHoldWriterLock ==
    /\ pc["host"] \in PoseReadSteps => pose_mutex_ = "host"
    /\ pc["host"] = "GetEventString_read" => tango_event_mutex_ = "host"
    /\ ~(pc["host"] \in PoseReadSteps
           /\ pc["pose_cb"] = "onPoseAvailable_UpdatePose")
    /\ ~(pc["host"] = "GetEventString_read"
           /\ pc["event_cb"] = "onTangoEventAvailable_UpdateTangoEvent")

\* C7: every mutation of pose_data_ (UpdatePose in the callback, ResetPoseData
\* in FreeContent) runs with pose_mutex_ held by the mutating thread, so two
\* mutations, or a mutation and a read, are never in progress together.
C7_PoseMutationsUnderLock ==
    /\ pc["pose_cb"] = "onPoseAvailable_UpdatePose" => pose_mutex_ = "pose_cb"
    /\ pc["host"] = "FreeContent_ResetPoseData" => pose_mutex_ = "host"
    /\ ~(pc["pose_cb"] = "onPoseAvailable_UpdatePose"
           /\ pc["host"] = "FreeContent_ResetPoseData")
    /\ ~(pc["pose_cb"] = "onPoseAvailable_UpdatePose"
           /\ pc["host"] \in PoseReadSteps)

\* C8: the pose path and the event path use different mutexes and never block
\* each other: while tango_event_mutex_ is held (by the event callback, also
\* when it is inside the progress report, or by the event reader) a pose
\* callback can take pose_mutex_ and run each of its statements, and the other
\* way round.
C8_PoseAndEventIndependent ==
    /\ pose_mutex_ # "event_cb"
    /\ tango_event_mutex_ # "pose_cb"
    /\ (tango_event_mutex_ # Free /\ pose_mutex_ = Free
          /\ pc["pose_cb"] = "idle")
         => ENABLED (\E pose \in LockPoses : onPoseAvailable_lock(pose))
    /\ (tango_event_mutex_ # Free
          /\ pc["pose_cb"] = "onPoseAvailable_UpdatePose")
         => ENABLED onPoseAvailable_UpdatePose
    /\ (tango_event_mutex_ # Free /\ pc["pose_cb"] = "onPoseAvailable_unlock")
         => ENABLED onPoseAvailable_unlock
    /\ (pose_mutex_ # Free /\ tango_event_mutex_ = Free
          /\ pc["event_cb"] = "idle" /\ Len(delivered) < MaxEvents)
         => ENABLED (\E event \in LockEvents :
                        onTangoEventAvailable_lock(event))
    /\ (pose_mutex_ # Free /\ pc["event_cb"] \notin {"idle"})
         => ENABLED (\/ onTangoEventAvailable_UpdateTangoEvent
                     \/ onTangoEventAvailable_check
                     \/ OnAdfSavingProgressChanged
                     \/ onTangoEventAvailable_unlock)

\* C8 witness: the event callback is inside the progress report, holding its
\* mutex, while the pose callback has taken pose_mutex_ and updated the store.
C8_Witness ==
    /\ pc["event_cb"] = "OnAdfSavingProgressChanged"
    /\ tango_event_mutex_ = "event_cb"
    /\ pc["pose_cb"] = "onPoseAvailable_unlock"
    /\ pose_mutex_ = "pose_cb"

\* The save-progress events, as the claim names them.
C9_IsProgressEvent(e) ==
    e.type = "TANGO_EVENT_AREA_LEARNING"
      /\ e.key = "AreaDescriptionSaveProgress"

RECURSIVE C9_Expected(_)
C9_Expected(evs) ==
    IF evs = <<>> THEN <<>>
    ELSE (IF C9_IsProgressEvent(Head(evs))
          THEN <<ProgressOf(Head(evs).value)>> ELSE <<>>)
           \o C9_Expected(Tail(evs))

\* Events whose callback has got past the report.
C9_Handled ==
    IF pc["event_cb"] \in {"idle", "onTangoEventAvailable_unlock"}
    THEN delivered
    ELSE SubSeq(delivered, 1, Len(delivered) - 1)

\* C9: the reports made are exactly one per delivered save-progress event, in
\* arrival order, each made before its callback returns; events of another
\* type or key make none.
C9_OneReportPerProgressEvent == reports = C9_Expected(C9_Handled)

\* C9 witness: three events were delivered, one of them not a save-progress
\* event, and two different reports were made.
C9_Witness ==
    /\ pc["event_cb"] = "idle"
    /\ Len(delivered) = 3
    /\ ~C9_IsProgressEvent(delivered[2])
    /\ Len(reports) = 2
    /\ reports[1] # reports[2]

\* C10: every reported percent is an integer in 0..100.
C10_ReportInRange == \A i \in 1..Len(reports) : reports[i] \in 0..100


\* The last report made.
LastReport == reports[Len(reports)]

\* C11: when the callback of a save-progress event is about to return, the
\* event is the retained one and its report has been made: 0 for the
\* malformed value "oops", 37 for "0.37"; the callback of a malformed value
\* always runs on (it raises nothing).
C11_MalformedProgressReportsZero ==
    /\ (pc["event_cb"] = "onTangoEventAvailable_unlock"
          /\ event_arg = ProgressEvent(V_oops))
         => (/\ tango_event_data_ = event_arg
             /\ Len(reports) > 0
             /\ LastReport = 0)
    /\ (pc["event_cb"] = "onTangoEventAvailable_unlock"
          /\ event_arg = ProgressEvent(V_037))
         => (/\ tango_event_data_ = event_arg
             /\ Len(reports) > 0
             /\ LastReport = 37)
    /\ (pc["event_cb"] # "idle" /\ event_arg = ProgressEvent(V_oops))
         => ENABLED (\/ onTangoEventAvailable_UpdateTangoEvent
                     \/ onTangoEventAvailable_check
                     \/ OnAdfSavingProgressChanged
                     \/ onTangoEventAvailable_unlock)

\* C11 witness: "0.37" was reported as 37 and the callback of "oops" is about
\* to return after reporting 0.
C11_Witness ==
    /\ pc["event_cb"] = "onTangoEventAvailable_unlock"
    /\ event_arg = ProgressEvent(V_oops)
    /\ tango_event_data_ = event_arg
    /\ delivered[1] = ProgressEvent(V_037)
    /\ reports = <<37, 0>>


\* A valid area-description -> device pose.
ValidAdfPose == [pair |-> "ADF_T_DEVICE", status |-> "VALID"]

\* The host takes a step of FreeContent (lines 294-297).
FreeContentStep ==
    /\ HostStep
    /\ \/ pc'["host"] = "FreeContent_ResetPoseData"
       \/ pc["host"] = "FreeContent_ResetPoseData"

\* The pose callback executes line 54.
UpdatePoseStep ==
    /\ pc["pose_cb"] = "onPoseAvailable_UpdatePose"
    /\ pc'["pose_cb"] # pc["pose_cb"]

\* C16: the relocalization flag is false at the start; it becomes true only
\* when the callback stores a valid area-description -> device pose; storing
\* any other pose, an invalid pose of that pair included, leaves a true flag
\* true; it becomes false again only in a step of FreeContent's ResetPoseData.
C16_RelocalizedLatches ==
    /\ ~PoseDataIsRelocalized(pose_data_)
    /\ [][/\ (~PoseDataIsRelocalized(pose_data_)
                /\ PoseDataIsRelocalized(pose_data_'))
               => (UpdatePoseStep /\ pose_arg = ValidAdfPose)
          /\ (PoseDataIsRelocalized(pose_data_)
                /\ ~PoseDataIsRelocalized(pose_data_'))
               => FreeContentStep
          /\ (UpdatePoseStep /\ pose_arg = ValidAdfPose)
               => PoseDataIsRelocalized(pose_data_')]_vars

\* C16 witness: an invalid area-description -> device pose has just been
\* stored over a valid one and the flag is still true.
C16_Witness ==
    /\ pc["pose_cb"] = "onPoseAvailable_unlock"
    /\ pose_arg = [pair |-> "ADF_T_DEVICE", status |-> "INVALID"]
    /\ pose_data_.pose["ADF_T_DEVICE"] = "INVALID"
    /\ PoseDataIsRelocalized(pose_data_)
    /\ reset_left = {}
    /\ pc["host"] = "idle"

C18_SaveCallsStoreOnce ==
    /\ pc["host"] = "SaveAdf_saveAreaDescription" => save_calls = 0
    /\ (pc["host"] = "idle" /\ ret.op = "SaveAdf" /\ ret.relocalized)
         => (/\ save_calls = 1
             /\ ret.saved => ret.uuid \in NewUuids
             /\ ~ret.saved => ret.uuid = NoUuid)

\* C18 witness: a SaveAdf of a relocalized session came back from a failed
\* store call.
C18_Witness ==
    /\ pc["host"] = "idle"
    /\ ret.op = "SaveAdf"
    /\ ret.relocalized
    /\ ~ret.saved
    /\ ret.uuid = NoUuid
    /\ save_calls = 1


\* C20: no thread holds pose_mutex_ and tango_event_mutex_ together; a
\* thread that is in none of the callbacks and accessors holds neither; and
\* the holder of a mutex is never waiting: its next statement can run, so the
\* mutex is released and the threads cannot deadlock on the two locks.
C20_NoDeadlockOnTheTwoLocks ==
    /\ \A t \in Threads :
          /\ ~(pose_mutex_ = t /\ tango_event_mutex_ = t)
          /\ pc[t] = "idle" => (pose_mutex_ # t /\ tango_event_mutex_ # t)
    /\ pose_mutex_ = "pose_cb" => ENABLED PoseCallbacks(LockPoses)
    /\ pose_mutex_ = "host" => ENABLED HostPoseCalls
    /\ tango_event_mutex_ = "event_cb"
         => ENABLED (\/ onTangoEventAvailable_UpdateTangoEvent
                     \/ onTangoEventAvailable_check
                     \/ OnAdfSavingProgressChanged
                     \/ onTangoEventAvailable_unlock)
    /\ tango_event_mutex_ = "host" => ENABLED GetEventString

\* C20 witness: both mutexes are held, by different threads: the host reads
\* the event string while the pose callback is at its update, and an event is
\* waiting for delivery.
C20_Witness ==
    /\ tango_event_mutex_ = "host"
    /\ pc["host"] = "GetEventString_unlock"
    /\ pose_mutex_ = "pose_cb"
    /\ pc["pose_cb"] = "onPoseAvailable_UpdatePose"
    /\ pc["event_cb"] = "idle"
    /\ Len(delivered) = 1


\* C15: what SetAdfMetadataValue hands back to its caller tells a run in
\* which a store call failed from a run in which every call succeeded.
C15_SetFailureVisibleToCaller ==
    (pc["host"] = "idle" /\ ret.op = "SetAdfMetadataValue"
       /\ meta.op = "SetAdfMetadataValue"
       /\ \E i \in DOMAIN meta.calls : ~meta.calls[i].ok)
      => ret # [op |-> "SetAdfMetadataValue"]


\* The reference split: the pieces of s between separators, in order, empty
\* pieces included.
RECURSIVE SplitOnSeparator(_)
SplitOnSeparator(s) ==
    IF \A i \in 1..Len(s) : s[i] # Separator THEN <<s>>
    ELSE LET k == CHOOSE i \in 1..Len(s) :
                     /\ s[i] = Separator
                     /\ \A j \in 1..(i - 1) : s[j] # Separator
         IN  <<SubSeq(s, 1, k - 1)>>
               \o SplitOnSeparator(SubSeq(s, k + 1, Len(s)))

\* The reference listing of a blob: split, then drop the empty pieces.
SplitDropEmpty(s) == SelectSeq(SplitOnSeparator(s), LAMBDA t : t # <<>>)

Str_ab_trailing == <<"a", ",", "b", ",">>

\* C12: the list GetAdfUuids hands back for a blob is the reference
\* split-and-drop-empty of the blob, in the blob's order, for every blob of
\* at most MaxBlobLen characters; the empty blob gives the empty list,
\* "a,b,c" gives [a, b, c] and "a,b," gives [a, b].
C12_ListingIsSplitDropEmpty ==
    (ret.op = "GetAdfUuids" /\ ~uuid_list.null)
      => (/\ ret.adf_list = SplitDropEmpty(uuid_list.chars)
          /\ uuid_list.chars = <<>> => ret.adf_list = <<>>
          /\ uuid_list.chars = Str_abc
               => ret.adf_list = << <<"a">>, <<"b">>, <<"c">> >>
          /\ uuid_list.chars = Str_ab_trailing
               => ret.adf_list = << <<"a">>, <<"b">> >>)

\* C12 witness: the blob "a,b," was listed as [a, b].
C12_Witness ==
    /\ ret.op = "GetAdfUuids"
    /\ uuid_list = ServiceBlob(Str_ab_trailing)
    /\ ret.adf_list = << <<"a">>, <<"b">> >>

\* C13: what GetAdfUuids hands back when the service returned no data
\* differs from what it hands back for the empty blob.
C13_NoDataDiffersFromEmpty ==
    (ret.op = "GetAdfUuids" /\ uuid_list.null)
      => ret # [op |-> "GetAdfUuids",
                adf_list |-> ParseUuidList(ServiceBlob(<<>>))]

\* The listing of the catalog TangoSetupConfig has queried.
Listing == IF uuid_list.null THEN <<>> ELSE SplitDropEmpty(uuid_list.chars)

\* C14: TangoSetupConfig asks for the load of an area description only when
\* the listing is not empty; the UUID it then sets in its configuration, and
\* names in loaded_adf_string_, is the last entry of the listing in the
\* service's order, and a setup that returns success has that UUID
\* configured; with an empty catalog no load UUID is configured.
C14_StartupPicksLastEntry ==
    [][/\ (pc["host"] = "TangoSetupConfig_GetAdfUuids" /\ HostStep)
            => /\ pc'["host"] = "TangoSetupConfig_setString" <=> Listing' # <<>>
               /\ config_heap'[tango_config_].load_uuid = NoLoadUuid
       /\ (pc["host"] = "TangoSetupConfig_setString" /\ HostStep)
            => /\ Listing # <<>>
               /\ loaded_adf_string_'.uuid = Listing[Len(Listing)]
               /\ config_heap'[tango_config_].load_uuid
                    \in {NoLoadUuid, Listing[Len(Listing)]}
               /\ setup'.ret = TANGO_SUCCESS
                    => config_heap'[tango_config_].load_uuid
                         = Listing[Len(Listing)]
               /\ \A h \in DOMAIN config_heap \ {tango_config_} :
                     config_heap'[h] = config_heap[h]
       /\ (pc["host"] = "TangoSetupConfig_GetTangoServiceVersion" /\ HostStep
             /\ setup.adf_list = <<>>)
            => config_heap'[tango_config_].load_uuid = NoLoadUuid]_vars

\* C14 witness: the service listed "b,a" and the setup is about to return
\* success with "a", the last entry and not the greatest, set for loading.
C14_Witness ==
    /\ pc["host"] = "TangoSetupConfig_GetTangoServiceVersion"
    /\ uuid_list = ServiceBlob(Str_ba)
    /\ setup.ret = TANGO_SUCCESS
    /\ config_heap[tango_config_].load_uuid = Str_a
    /\ loaded_adf_string_ = [count |-> 2, uuid |-> Str_a]

\* C19: every configuration the service has handed out has been freed at
\* most once, and one that has not been freed is still held: by the member
\* of the living object or by the local of a running GetAllAdfUuids.
C19_EveryConfigFreedOnce ==
    \A h \in DOMAIN config_heap :
       /\ config_heap[h].frees <= 1
       /\ config_heap[h].frees = 0
            => \/ (tango_config_ = h /\ ~destroyed)
               \/ local_tango_config_ = h

====
